---- MODULE Spec2Model ----
(***************************************************************************)
(* Model of server.js: the in-memory embedding index built once at process *)
(* start (buildEmbeddingIndex), the retrieval facade (retrieveContext),    *)
(* and the /chat and /health handlers that read the index.                 *)
(*                                                                         *)
(* Strings are sequences of one-character strings.  Node runs handlers     *)
(* cooperatively: an action of this model is the code that runs between    *)
(* two I/O suspension points (await of a file read or of a Bedrock call).  *)
(* GET /summaries neither reads nor writes the index state and is left     *)
(* out; so are the constant fields of the /health body.                    *)
(***************************************************************************)
EXTENDS Integers, Sequences, FiniteSets, TLC

(* ------------------------------ bounds -------------------------------- *)
\* number of /chat requests of one run
MaxRequests == 1
\* largest configured RETRIEVAL_TOP_K explored
MaxK == 2
\* rows per csv chunk (120 at server.js:129), scaled down
CsvChunkSize == 2
\* characters per pdf chunk (900 at server.js:130), scaled down
PdfMaxLen == 3
\* characters of a chunk sent to the embedding model (2000 at server.js:137), scaled down
EmbedInputMax == 26
\* characters of a query sent to the embedding model (4000 at server.js:155), scaled down
QueryInputMax == 2
\* characters kept of a loaded document (12000 at server.js:169,174), scaled down
LoadLimit == 7
\* most data rows of a tabular text given to chunkCsv directly
MaxRows == 4
\* largest chunk size given to chunkCsv directly
MaxChunkSize == 3
\* longest free text given to chunkText directly
MaxTextLen == 5
\* largest maximum chunk length given to chunkText directly
MaxMaxLen == 3
\* longest vector given to cosineSimilarity directly
MaxDim == 2

(* --------------------------- string helpers --------------------------- *)
Min(a, b) == IF a <= b THEN a ELSE b

\* s.slice(from, to) for 0 <= from: the elements at 0-based positions from .. to-1
Slice(s, from, to) == SubSeq(s, from + 1, Min(to, Len(s)))

Whitespace == {" ", "\n", "\r", "\t"}

RECURSIVE Trim(_)
Trim(s) ==
    IF s = <<>> THEN s
    ELSE IF Head(s) \in Whitespace THEN Trim(Tail(s))
    ELSE IF s[Len(s)] \in Whitespace THEN Trim(SubSeq(s, 1, Len(s) - 1))
    ELSE s

RECURSIVE Join(_, _)
Join(parts, sep) ==
    IF parts = <<>> THEN <<>>
    ELSE IF Len(parts) = 1 THEN parts[1]
    ELSE parts[1] \o sep \o Join(Tail(parts), sep)

Digit(d) == CASE d = 0 -> "0" [] d = 1 -> "1" [] d = 2 -> "2" [] d = 3 -> "3"
              [] d = 4 -> "4" [] d = 5 -> "5" [] d = 6 -> "6" [] d = 7 -> "7"
              [] d = 8 -> "8" [] d = 9 -> "9"

\* `${n}` for a non-negative integer
RECURSIVE NumToString(_)
NumToString(n) ==
    IF n < 10 THEN <<Digit(n)>> ELSE NumToString(n \div 10) \o <<Digit(n % 10)>>

\* text.split(/\r?\n/)
RECURSIVE SplitLinesFrom(_, _, _, _)
SplitLinesFrom(text, i, cur, acc) ==
    IF i > Len(text) THEN Append(acc, cur)
    ELSE IF text[i] = "\n" THEN SplitLinesFrom(text, i + 1, <<>>, Append(acc, cur))
    ELSE IF text[i] = "\r" /\ i < Len(text) /\ text[i + 1] = "\n"
         THEN SplitLinesFrom(text, i + 2, <<>>, Append(acc, cur))
    ELSE SplitLinesFrom(text, i + 1, Append(cur, text[i]), acc)

SplitLines(text) == SplitLinesFrom(text, 1, <<>>, <<>>)

(* ------------------------------ chunkCsv ------------------------------ *)
CsvLabel(from, to) ==
    <<"C", "S", "V", " ", "c", "h", "u", "n", "k", " ", "(", "r", "o", "w", "s", " ">>
        \o NumToString(from) \o <<"-">> \o NumToString(to) \o <<")", ":", "\n">>

RECURSIVE CsvChunksFrom(_, _, _, _)
CsvChunksFrom(header, dataLines, i, chunkSize) ==
    IF i >= Len(dataLines) THEN <<>>
    ELSE <<CsvLabel(i + 1, Min(i + chunkSize, Len(dataLines)))
             \o header \o <<"\n">>
             \o Join(Slice(dataLines, i, i + chunkSize), <<"\n">>)>>
         \o CsvChunksFrom(header, dataLines, i + chunkSize, chunkSize)

chunkCsv(text, chunkSize) ==
    LET lines == SplitLines(text)
        header == lines[1]
        dataLines == Tail(lines)
    IN CsvChunksFrom(header, dataLines, 0, chunkSize)

(* ------------------------------ chunkText ----------------------------- *)
\* the last index of the maximal whitespace run text[i..] (i - 1 if text[i] is none)
RECURSIVE RunEnd(_, _)
RunEnd(text, i) ==
    IF i <= Len(text) /\ text[i] \in Whitespace THEN RunEnd(text, i + 1) ELSE i - 1

\* the end of the match of /\n\s*\n+/ that starts at i, or 0 when none starts there:
\* \s* is greedy and backtracks to the last newline of the whitespace run
MatchEnd(text, i) ==
    IF text[i] # "\n" THEN 0
    ELSE LET m == RunEnd(text, i + 1)
             nl == {j \in (i + 1)..m : text[j] = "\n"}
         IN IF nl = {} THEN 0 ELSE CHOOSE j \in nl : \A j2 \in nl : j2 <= j

\* text.split(/\n\s*\n+/)
RECURSIVE SplitParasFrom(_, _, _, _)
SplitParasFrom(text, i, cur, acc) ==
    IF i > Len(text) THEN Append(acc, cur)
    ELSE LET e == MatchEnd(text, i)
         IN IF e > 0 THEN SplitParasFrom(text, e + 1, <<>>, Append(acc, cur))
            ELSE SplitParasFrom(text, i + 1, Append(cur, text[i]), acc)

\* chunkText whose windows lose their last character
RECURSIVE WindowsDroppingLast(_, _, _)
WindowsDroppingLast(p, i, maxLen) ==
    IF i >= Len(p) THEN <<>>
    ELSE <<Slice(p, i, i + maxLen - 1)>> \o WindowsDroppingLast(p, i + maxLen, maxLen)

RECURSIVE Windows(_, _, _)
Windows(p, i, maxLen) ==
    IF i >= Len(p) THEN <<>>
    ELSE <<Slice(p, i, i + maxLen)>> \o Windows(p, i + maxLen, maxLen)

RECURSIVE ChunkParts(_, _)
ChunkParts(parts, maxLen) ==
    IF parts = <<>> THEN <<>>
    ELSE LET p == Trim(Head(parts))
         IN (IF p = <<>> THEN <<>>
             ELSE IF Len(p) <= maxLen THEN <<p>>
             ELSE Windows(p, 0, maxLen))
            \o ChunkParts(Tail(parts), maxLen)

chunkText(text, maxLen) == ChunkParts(SplitParasFrom(text, 1, <<>>, <<>>), maxLen)

(* --------------------------- document loaders ------------------------- *)
\* (parsed.text || "").replace(/\s+/g, " ")
RECURSIVE CollapseWs(_)
CollapseWs(s) ==
    IF s = <<>> THEN s
    ELSE IF Head(s) \in Whitespace
         THEN <<" ">> \o CollapseWs(SubSeq(s, RunEnd(s, 1) + 1, Len(s)))
    ELSE <<Head(s)>> \o CollapseWs(Tail(s))

loadCsvSnippet(file) == Slice(file, 0, LoadLimit)

loadPdfText(parsedText) == Slice(Trim(CollapseWs(parsedText)), 0, LoadLimit)

(* -------------------------- cosineSimilarity -------------------------- *)
RECURSIVE SumTo(_, _, _, _)
SumTo(a, b, i, len) == IF i > len THEN 0 ELSE a[i] * b[i] + SumTo(a, b, i + 1, len)

Abs(n) == IF n < 0 THEN -n ELSE n

\* cosineSimilarity returning early only when both norms are zero
cosineSimilarityBothZero(a, b) ==
    LET len == Min(Len(a), Len(b))
        dot == SumTo(a, b, 1, len)
        na == SumTo(a, a, 1, len)
        nb == SumTo(b, b, 1, len)
    IN IF na = 0 /\ nb = 0 THEN <<0, 1>> ELSE <<dot * Abs(dot), na * nb>>

\* A score is kept exactly, as the pair <<dot * |dot|, na * nb>> with a positive
\* second component: the cosine dot / (sqrt(na) * sqrt(nb)) is the signed square
\* root of the quotient, so scores compare as these quotients compare.
\* The early return of 0 is the pair <<0, 1>>.
cosineSimilarity(a, b) ==
    LET len == Min(Len(a), Len(b))
        dot == SumTo(a, b, 1, len)
        na == SumTo(a, a, 1, len)
        nb == SumTo(b, b, 1, len)
    IN IF na = 0 \/ nb = 0 THEN <<0, 1>> ELSE <<dot * Abs(dot), na * nb>>

\* b.score - a.score > 0, the comparator of the sort at server.js:161
ScoreGreater(s, t) == s[1] * t[2] > t[1] * s[2]

(* ------------------------- ranking and context ------------------------ *)
\* the insertion of a sort whose comparator is a.score - b.score
InsertByScoreAscending(sorted, e) ==
    IF sorted = <<>> THEN <<e>>
    ELSE LET lt == [i \in 1..Len(sorted) |-> ScoreGreater(sorted[i].score, e.score)]
             at == IF \E i \in 1..Len(sorted) : lt[i]
                   THEN CHOOSE i \in 1..Len(sorted) :
                           lt[i] /\ \A j \in 1..(i - 1) : ~lt[j]
                   ELSE Len(sorted) + 1
         IN SubSeq(sorted, 1, at - 1) \o <<e>> \o SubSeq(sorted, at, Len(sorted))

\* the insertion of a sort that puts an element before the elements it ties with
RECURSIVE InsertByScoreBeforeTies(_, _)
InsertByScoreBeforeTies(sorted, e) ==
    IF sorted = <<>> THEN <<e>>
    ELSE IF ~ScoreGreater(Head(sorted).score, e.score) THEN <<e>> \o sorted
    ELSE <<Head(sorted)>> \o InsertByScoreBeforeTies(Tail(sorted), e)

\* Array.prototype.sort is stable: an element goes after every element that the
\* comparator does not place behind it
RECURSIVE InsertByScore(_, _)
InsertByScore(sorted, e) ==
    IF sorted = <<>> THEN <<e>>
    ELSE IF ScoreGreater(e.score, Head(sorted).score) THEN <<e>> \o sorted
    ELSE <<Head(sorted)>> \o InsertByScore(Tail(sorted), e)

RECURSIVE SortByScore(_)
SortByScore(items) ==
    IF items = <<>> THEN <<>>
    ELSE InsertByScore(SortByScore(SubSeq(items, 1, Len(items) - 1)), items[Len(items)])

\* server.js:156-162: map to scored entries, sort by descending score, slice(0, k)
Scored(index, queryVec, k) ==
    LET scoredAll == [i \in 1..Len(index) |->
                        [source |-> index[i].source, id |-> index[i].id,
                         text |-> index[i].text, vector |-> index[i].vector,
                         score |-> cosineSimilarity(queryVec, index[i].vector)]]
    IN Slice(SortByScore(scoredAll), 0, k)

\* a ranking whose sort is applied to the shared index itself
RankingSortingShared(index, queryVec, k) ==
    LET sorted == SortByScore([i \in 1..Len(index) |->
                     [source |-> index[i].source, id |-> index[i].id,
                      text |-> index[i].text, vector |-> index[i].vector,
                      score |-> cosineSimilarity(queryVec, index[i].vector)]])
    IN [scored |-> Slice(sorted, 0, k),
        index |-> [i \in 1..Len(sorted) |->
                     [source |-> sorted[i].source, id |-> sorted[i].id,
                      text |-> sorted[i].text, vector |-> sorted[i].vector]]]

\* server.js:156-162 with its effect on the shared array: map returns a new
\* array, sort orders that array in place, and the index is left as it was
Ranking(index, queryVec, k) ==
    [scored |-> Scored(index, queryVec, k), index |-> index]

SourceChars(source) == IF source = "csv" THEN <<"c", "s", "v">> ELSE <<"p", "d", "f">>

\* `Chunk ${i + 1} [${s.source}]:\n`, with rank = i + 1
SectionLabel(rank, source) ==
    <<"C", "h", "u", "n", "k", " ">> \o NumToString(rank) \o <<" ", "[">>
        \o SourceChars(source) \o <<"]", ":", "\n">>

\* sections labelled with the 0-based index
ContextTextZeroBased(scored) ==
    Join([i \in 1..Len(scored) |->
             SectionLabel(i - 1, scored[i].source) \o scored[i].text],
         <<"\n", "\n">>)

\* server.js:163-165
ContextText(scored) ==
    Join([i \in 1..Len(scored) |-> SectionLabel(i, scored[i].source) \o scored[i].text],
         <<"\n", "\n">>)

(* ------------------------------- values ------------------------------ *)
\* null, where an Error object may stand
Null == [null |-> TRUE]
\* undefined or null, where a string may stand: a sequence that is no string,
\* its one element not being a character
Undefined == <<"undefined">>

\* Error objects; fs, pdf-parse and the Bedrock client reject with their own
CsvReadError == [message |-> "ENOENT long-term-sales-data.csv"]
PdfReadError == [message |-> "ENOENT Online Garment Tracking and Management System.pdf"]
PdfParseError == [message |-> "Invalid PDF structure"]
EmbedSendError == [message |-> "embed: ThrottlingException"]
NoEmbeddingError == [message |-> "No embedding returned"]
GenSendError == [message |-> "generate: ThrottlingException"]
NotReadyError == [message |-> "Embedding index not ready"]

\* String(err)
String(err) == <<"Error: ", err.message>>

\* Boolean(s) of a string or undefined operand
Truthy(s) == s # Undefined /\ s # <<>>

(* ------------------------ inputs of the environment ------------------- *)
\* contents of long-term-sales-data.csv
CsvFiles == { <<>>,
              <<"h">>,
              <<"h", "\n", "a">>,
              <<"h", "\r", "\n", "a", "\n", "b", "\n", "c", "\n", "d">> }

\* parsed.text of the pdf
PdfTexts == { <<>>, <<"p">>, <<" ", "p", "\n", "\n", "q", "q", "\t">> }

\* parsed.embedding when it is an array
Vectors == { <<1, 0>>, <<0, 1>> }

\* req.body.prompt and req.body.context
Prompts == { Undefined, <<>>, <<" ">>, <<"q", "r", "s">> }
Contexts == { Undefined, <<"u">> }

\* parsed.content[0].text of a generation response, undefined when absent
GenTexts == { Undefined, <<"a", " ">> }

Requests == 1..MaxRequests

(* -------------------------------- state ------------------------------- *)
VARIABLES
    embeddingIndex,       \* server.js:33
    embeddingIndexReady,  \* server.js:34
    embeddingIndexError,  \* server.js:35
    TOP_K,                \* server.js:24, fixed at start
    buildPc,              \* where buildEmbeddingIndex is: "fetching", "embedding", "done"
    csvLoad,              \* the promise of loadCsvSnippet()
    pdfLoad,              \* the promise of loadPdfText()
    corpus,               \* local of buildEmbeddingIndex
    vectors,              \* local of buildEmbeddingIndex
    buildEmbedArg,        \* argument of the build's outstanding embedText call
    buildEmbedCalls,      \* embedText calls issued by the build so far
    buildThrown,          \* the error thrown inside the build's try block, if any
    req,                  \* the /chat requests
    health,               \* body of the last /health response
    call                  \* a direct call of chunkCsv, chunkText or cosineSimilarity

indexVars == <<embeddingIndex, embeddingIndexReady, embeddingIndexError>>
buildVars == <<buildPc, csvLoad, pdfLoad, corpus, vectors, buildEmbedArg, buildEmbedCalls,
               buildThrown>>
vars == <<embeddingIndex, embeddingIndexReady, embeddingIndexError, TOP_K, buildPc,
          csvLoad, pdfLoad, corpus, vectors, buildEmbedArg, buildEmbedCalls, buildThrown,
          req, health, call>>

\* no direct call
NoCall == [fn |-> "none"]

Pending == [status |-> "pending", value |-> Undefined]

NewRequest ==
    [pc |-> "new", prompt |-> Undefined, context |-> Undefined,
     at |-> "none", rcKind |-> "none", rcError |-> Null, retrieval |-> <<>>,
     queryArg |-> Undefined, queryVec |-> <<>>, scored |-> <<>>, embedCalls |-> 0,
     genCalls |-> 0, genContext |-> Undefined, genError |-> Null,
     status |-> 0, body |-> [none |-> TRUE]]

\* the lifecycle state the three globals stand for
IndexState ==
    IF embeddingIndexReady THEN "Ready"
    ELSE IF embeddingIndexError # Null THEN "Failed"
    ELSE "Building"

\* server.js:33-35 and the call at server.js:277, which runs to its first await
Init ==
    /\ embeddingIndex = <<>>
    /\ embeddingIndexReady = FALSE
    /\ embeddingIndexError = Null
    /\ TOP_K \in 0..MaxK
    /\ buildPc = "fetching"
    /\ csvLoad = Pending
    /\ pdfLoad = Pending
    /\ corpus = <<>>
    /\ vectors = <<>>
    /\ buildEmbedArg = Undefined
    /\ buildEmbedCalls = 0
    /\ buildThrown = Null
    /\ req = [r \in Requests |-> NewRequest]
    /\ health = [ok |-> FALSE]
    /\ call = NoCall

(* ------------------------- buildEmbeddingIndex ------------------------ *)
\* a publication that leaves the error of an earlier build in place
PublishKeepingError(vs) ==
    /\ embeddingIndex' = vs
    /\ embeddingIndexReady' = TRUE
    /\ buildPc' = "done"
    /\ buildEmbedArg' = Undefined
    /\ UNCHANGED embeddingIndexError

\* server.js:140-142
Publish(vs) ==
    /\ embeddingIndex' = vs
    /\ embeddingIndexReady' = TRUE
    /\ embeddingIndexError' = Null
    /\ buildPc' = "done"
    /\ buildEmbedArg' = Undefined

\* a catch block that also publishes the vectors embedded so far
CatchPublishingPartial(err) ==
    /\ embeddingIndexError' = err
    /\ embeddingIndexReady' = FALSE
    /\ embeddingIndex' = vectors
    /\ buildPc' = "done"
    /\ buildEmbedArg' = Undefined
    /\ UNCHANGED <<corpus, vectors, buildEmbedCalls>>

\* server.js:144-148
Catch(err) ==
    /\ embeddingIndexError' = err
    /\ embeddingIndexReady' = FALSE
    /\ buildPc' = "done"
    /\ buildEmbedArg' = Undefined
    /\ UNCHANGED <<embeddingIndex, corpus, vectors, buildEmbedCalls>>

\* server.js:131-134
Corpus(csvChunks, pdfChunks) ==
    [i \in 1..Len(csvChunks) |->
        [source |-> "csv", id |-> <<"c", "s", "v", "-">> \o NumToString(i - 1),
         text |-> csvChunks[i]]]
    \o [i \in 1..Len(pdfChunks) |->
        [source |-> "pdf", id |-> <<"p", "d", "f", "-">> \o NumToString(i - 1),
         text |-> pdfChunks[i]]]

\* a loop that walks the corpus from its end
IssueEmbedBackwards(items, done) ==
    /\ buildEmbedArg' = Slice(items[Len(items) - done].text, 0, EmbedInputMax)
    /\ buildEmbedCalls' = buildEmbedCalls + 1
    /\ buildPc' = "embedding"

\* server.js:137, the call for the item after the `done` embedded ones
IssueEmbed(items, done) ==
    /\ buildEmbedArg' = Slice(items[done + 1].text, 0, EmbedInputMax)
    /\ buildEmbedCalls' = buildEmbedCalls + 1
    /\ buildPc' = "embedding"

\* a loop that pushes each entry into the shared index as it is embedded
EmbedLoopInPlace(items, vs) ==
    /\ vectors' = vs
    /\ IF Len(vs) = Len(items)
       THEN Publish(vs) /\ UNCHANGED buildEmbedCalls
       ELSE /\ IssueEmbed(items, Len(vs))
            /\ embeddingIndex' = vs
            /\ UNCHANGED <<embeddingIndexReady, embeddingIndexError>>

\* server.js:136-142: the loop from its top with vs embedded so far
EmbedLoop(items, vs) ==
    /\ vectors' = vs
    /\ IF Len(vs) = Len(items)
       THEN Publish(vs) /\ UNCHANGED buildEmbedCalls
       ELSE IssueEmbed(items, Len(vs)) /\ UNCHANGED indexVars

\* server.js:129-136: the build resumes with both documents
AfterFetch(csv, pdfRaw) ==
    LET items == Corpus(chunkCsv(csv, CsvChunkSize), chunkText(pdfRaw, PdfMaxLen))
    IN /\ corpus' = items
       /\ EmbedLoop(items, <<>>)

\* server.js:128 and 169-172: the csv read returns
LoadCsvOk(file) ==
    /\ csvLoad.status = "pending"
    /\ csvLoad' = [status |-> "ok", value |-> loadCsvSnippet(file)]
    /\ IF buildPc = "fetching" /\ pdfLoad.status = "ok"
       THEN AfterFetch(loadCsvSnippet(file), pdfLoad.value)
       ELSE UNCHANGED <<indexVars, buildPc, corpus, vectors, buildEmbedArg, buildEmbedCalls>>
    /\ UNCHANGED <<TOP_K, call, pdfLoad, buildThrown, req, health>>

\* server.js:128 and 174-179: the pdf read and parse return
LoadPdfOk(parsedText) ==
    /\ pdfLoad.status = "pending"
    /\ pdfLoad' = [status |-> "ok", value |-> loadPdfText(parsedText)]
    /\ IF buildPc = "fetching" /\ csvLoad.status = "ok"
       THEN AfterFetch(csvLoad.value, loadPdfText(parsedText))
       ELSE UNCHANGED <<indexVars, buildPc, corpus, vectors, buildEmbedArg, buildEmbedCalls>>
    /\ UNCHANGED <<TOP_K, call, csvLoad, buildThrown, req, health>>

\* Promise.all rejects with the first rejection; a later one is dropped
LoadRejected(err) ==
    IF buildPc = "fetching"
    THEN buildThrown' = err /\ Catch(err)
    ELSE UNCHANGED <<indexVars, buildPc, corpus, vectors, buildEmbedArg, buildEmbedCalls,
                     buildThrown>>

LoadCsvFail ==
    /\ csvLoad.status = "pending"
    /\ csvLoad' = [status |-> "failed", value |-> CsvReadError]
    /\ LoadRejected(CsvReadError)
    /\ UNCHANGED <<TOP_K, call, pdfLoad, req, health>>

LoadPdfFail(err) ==
    /\ pdfLoad.status = "pending"
    /\ pdfLoad' = [status |-> "failed", value |-> err]
    /\ LoadRejected(err)
    /\ UNCHANGED <<TOP_K, call, csvLoad, req, health>>

\* server.js:137-138: the build's embedText call returns a vector
BuildEmbedOk(vector) ==
    /\ buildPc = "embedding"
    /\ LET item == corpus[Len(vectors) + 1]
           entry == [source |-> item.source, id |-> item.id, text |-> item.text,
                     vector |-> vector]
       IN EmbedLoop(corpus, Append(vectors, entry))
    /\ UNCHANGED <<TOP_K, call, csvLoad, pdfLoad, corpus, buildThrown, req, health>>

\* a build that records the failure and then retries the failed call
BuildEmbedFailRetrying(err) ==
    /\ buildPc = "embedding"
    /\ embeddingIndexError' = err
    /\ embeddingIndexReady' = FALSE
    /\ buildEmbedCalls' = buildEmbedCalls + 1
    /\ UNCHANGED <<embeddingIndex, buildPc, corpus, vectors, buildEmbedArg, buildThrown>>
    /\ UNCHANGED <<TOP_K, call, csvLoad, pdfLoad, req, health>>

\* server.js:137 and 75-81: the build's embedText call throws
BuildEmbedFail(err) ==
    /\ buildPc = "embedding"
    /\ buildThrown' = err
    /\ Catch(err)
    /\ UNCHANGED <<TOP_K, call, csvLoad, pdfLoad, req, health>>

(* ---------------------- retrieveContext and /chat --------------------- *)
\* the guard with its negation lost
GuardFailsNegationLost == embeddingIndexReady /\ Len(embeddingIndex) = 0

\* server.js:152
GuardFails == ~embeddingIndexReady \/ Len(embeddingIndex) = 0

\* server.js:153
GuardError == IF embeddingIndexError # Null THEN embeddingIndexError ELSE NotReadyError

\* server.js:255: [retrieval, context].filter(Boolean).join("\n\n")
CombinedContext(retrieval, context) ==
    Join(SelectSeq(<<retrieval, context>>, Truthy), <<"\n", "\n">>)

\* a check of the prompt that does not trim it
PromptBlankNoTrim(prompt) == ~Truthy(prompt)

\* server.js:243
PromptBlank(prompt) == ~Truthy(prompt) \/ Trim(prompt) = <<>>

\* server.js:255-263: the handler goes on to the generation call; the text sent
\* (server.js:39) is a function of the prompt and of the combined context kept here
CallBedrock(rq, retrieval) ==
    [rq EXCEPT !.pc = "generating",
               !.genCalls = @ + 1,
               !.genContext = CombinedContext(retrieval, rq.context)]

\* a handler without the inner try/catch: the retrieval error reaches the outer catch
StartRetrievalPropagating(rq) ==
    IF GuardFails
    THEN [rq EXCEPT !.at = IndexState, !.rcKind = "threw", !.rcError = GuardError,
                    !.pc = "responded", !.status = 500,
                    !.body = [error |-> "Bedrock call failed",
                              detail |-> GuardError.message]]
    ELSE [rq EXCEPT !.at = IndexState, !.rcKind = "pending", !.pc = "embedding",
                    !.queryArg = Slice(rq.prompt, 0, QueryInputMax),
                    !.embedCalls = @ + 1]

\* a retrieveContext that awaits the end of the build before its readiness check
StartRetrievalAwaitingBuild(rq) ==
    IF buildPc # "done"
    THEN [rq EXCEPT !.at = IndexState, !.rcKind = "pending", !.pc = "waiting"]
    ELSE IF GuardFails
    THEN CallBedrock([rq EXCEPT !.at = IndexState, !.rcKind = "threw",
                                !.rcError = GuardError], <<>>)
    ELSE [rq EXCEPT !.at = IndexState, !.rcKind = "pending", !.pc = "embedding",
                    !.queryArg = Slice(rq.prompt, 0, QueryInputMax),
                    !.embedCalls = @ + 1]

\* a retrieveContext that sends the whole query to the embedding call
StartRetrievalUntruncated(rq) ==
    IF GuardFails
    THEN CallBedrock([rq EXCEPT !.at = IndexState, !.rcKind = "threw",
                                !.rcError = GuardError], <<>>)
    ELSE [rq EXCEPT !.at = IndexState, !.rcKind = "pending", !.pc = "embedding",
                    !.queryArg = rq.prompt,
                    !.embedCalls = @ + 1]

\* server.js:151-155 and 250-253: retrieveContext runs to its throw or to its await
StartRetrieval(rq) ==
    IF GuardFails
    THEN CallBedrock([rq EXCEPT !.at = IndexState, !.rcKind = "threw",
                                !.rcError = GuardError], <<>>)
    ELSE [rq EXCEPT !.at = IndexState, !.rcKind = "pending", !.pc = "embedding",
                    !.queryArg = Slice(rq.prompt, 0, QueryInputMax),
                    !.embedCalls = @ + 1]

\* server.js:241-253: a /chat request arrives
ChatArrive(r, prompt, context) ==
    /\ req[r].pc = "new"
    /\ IF r = 1 THEN TRUE ELSE req[r - 1].pc # "new"
    /\ LET rq == [req[r] EXCEPT !.prompt = prompt, !.context = context]
       IN req' = [req EXCEPT ![r] =
                    IF PromptBlank(prompt)
                    THEN [rq EXCEPT !.pc = "responded", !.status = 400,
                                    !.body = [error |-> "Prompt is required"]]
                    ELSE StartRetrieval(rq)]
    /\ UNCHANGED <<indexVars, TOP_K, call, buildVars, health>>

\* server.js:155-166: the query's embedText call returns a vector
QueryEmbedOk(r, vector) ==
    /\ req[r].pc = "embedding"
    /\ LET ranking == Ranking(embeddingIndex, vector, TOP_K)
           scored == ranking.scored
           contextText == ContextText(scored)
       IN /\ req' = [req EXCEPT ![r] =
                       CallBedrock([req[r] EXCEPT !.queryVec = vector,
                                                  !.scored = scored,
                                                  !.rcKind = "returned",
                                                  !.retrieval = contextText],
                                   contextText)]
          /\ embeddingIndex' = ranking.index
    /\ UNCHANGED <<embeddingIndexReady, embeddingIndexError, TOP_K, call, buildVars, health>>

\* server.js:155 and 251-253: the query's embedText call throws
QueryEmbedFail(r, err) ==
    /\ req[r].pc = "embedding"
    /\ req' = [req EXCEPT ![r] =
                 CallBedrock([req[r] EXCEPT !.rcKind = "threw", !.rcError = err], <<>>)]
    /\ UNCHANGED <<indexVars, TOP_K, call, buildVars, health>>

\* server.js:63-64: parsed?.content?.[0]?.text?.trim() || "(no text returned)"
AnswerOf(text) ==
    IF text # Undefined /\ Trim(text) # <<>> THEN Trim(text) ELSE <<"(no text returned)">>

\* server.js:263-264: the generation call returns
GenOk(r, text) ==
    /\ req[r].pc = "generating"
    /\ req' = [req EXCEPT ![r].pc = "responded", ![r].status = 200,
                          ![r].body = [answer |-> AnswerOf(text)]]
    /\ UNCHANGED <<indexVars, TOP_K, call, buildVars, health>>

\* server.js:265-270: the generation call throws
GenFail(r, err) ==
    /\ req[r].pc = "generating"
    /\ req' = [req EXCEPT ![r].pc = "responded", ![r].status = 500,
                          ![r].genError = err,
                          ![r].body = [error |-> "Bedrock call failed",
                                       detail |-> err.message]]
    /\ UNCHANGED <<indexVars, TOP_K, call, buildVars, health>>

(* ------------------------------- /health ------------------------------ *)
\* a status response that counts the entries the build has embedded so far
HealthCountingVectors ==
    /\ health' = [ok |-> TRUE,
                  indexReady |-> embeddingIndexReady,
                  indexSize |-> Len(vectors),
                  indexError |-> IF embeddingIndexError # Null
                                 THEN String(embeddingIndexError) ELSE Undefined]
    /\ UNCHANGED <<indexVars, TOP_K, call, buildVars, req>>

\* server.js:186-196
Health ==
    /\ health' = [ok |-> TRUE,
                  indexReady |-> embeddingIndexReady,
                  indexSize |-> Len(embeddingIndex),
                  indexError |-> IF embeddingIndexError # Null
                                 THEN String(embeddingIndexError) ELSE Undefined]
    /\ UNCHANGED <<indexVars, TOP_K, call, buildVars, req>>

(* ---------------------------- specification --------------------------- *)
Next ==
    \/ \E file \in CsvFiles : LoadCsvOk(file)
    \/ LoadCsvFail
    \/ \E parsedText \in PdfTexts : LoadPdfOk(parsedText)
    \/ \E err \in {PdfReadError, PdfParseError} : LoadPdfFail(err)
    \/ \E vector \in Vectors : BuildEmbedOk(vector)
    \/ \E err \in {EmbedSendError, NoEmbeddingError} : BuildEmbedFail(err)
    \/ \E r \in Requests, prompt \in Prompts, context \in Contexts :
          ChatArrive(r, prompt, context)
    \/ \E r \in Requests, vector \in Vectors : QueryEmbedOk(r, vector)
    \/ \E r \in Requests : QueryEmbedFail(r, EmbedSendError)
    \/ \E r \in Requests, text \in GenTexts : GenOk(r, text)
    \/ \E r \in Requests : GenFail(r, GenSendError)
    \/ Health

Spec == Init /\ [][Next]_vars

(* ------------------------------- claims ------------------------------- *)
\* C1: a retrieveContext call that starts while the index state is Building or
\* Failed ends by raising: the captured build error if there is one, else the
\* generic "not ready" error; it issues no embedding call and no context string
\* comes back from it.
C1_NotReadyRaises ==
    \A r \in Requests :
        req[r].at \in {"Building", "Failed"} =>
            /\ req[r].rcKind = "threw"
            /\ req[r].rcError =
                 (IF req[r].at = "Failed" THEN embeddingIndexError ELSE NotReadyError)
            /\ req[r].embedCalls = 0
            /\ req[r].retrieval = <<>>
            /\ req[r].scored = <<>>

C1_Witness ==
    /\ req[1].at = "Failed"
    /\ req[1].rcKind = "threw"
    /\ req[1].rcError = PdfParseError
    /\ req[1].pc = "responded"

\* the complete index of the build: one entry per corpus chunk, in corpus order
CompleteIndex(index) ==
    /\ Len(index) = Len(corpus)
    /\ \A i \in 1..Len(corpus) :
          /\ index[i].source = corpus[i].source
          /\ index[i].id = corpus[i].id
          /\ index[i].text = corpus[i].text
          /\ index[i].vector \in Vectors

\* C2: in every state (each is a point where a request handler can run) the
\* shared index is the index of before the build, which is empty, or the complete
\* index of the build; a /health response never reports another size and a
\* retrieveContext call never ranked another number of entries.
C2_NoPartialIndex ==
    /\ embeddingIndex = <<>> \/ CompleteIndex(embeddingIndex)
    /\ (buildPc # "done" => embeddingIndex = <<>>)
    /\ health.ok => health.indexSize \in {0, Len(corpus)}
    /\ \A r \in Requests :
          req[r].rcKind = "returned" => Len(req[r].scored) = Min(TOP_K, Len(corpus))

C2_Witness ==
    /\ buildPc = "embedding"
    /\ Len(corpus) >= 3
    /\ Len(vectors) = 2
    /\ embeddingIndex = <<>>
    /\ health.ok /\ health.indexSize = 0
    /\ req[1].pc = "responded"

BuildFailed == buildThrown # Null

\* C3: once a stage of the build has failed, the readiness flag is false, the
\* last build error is the error of that stage, the shared index is as before
\* the build (empty, nothing of the failed build in it), no embedding call of
\* the build is outstanding and none is issued afterwards, and a /health
\* response reports not-ready with the text of that error.
C3_FailedBuildState ==
    BuildFailed =>
        /\ ~embeddingIndexReady
        /\ embeddingIndexError = buildThrown
        /\ embeddingIndex = <<>>
        /\ buildPc = "done"
        /\ buildEmbedArg = Undefined
        /\ buildEmbedCalls = (IF corpus = <<>> THEN 0 ELSE Len(vectors) + 1)

C3_FailedBuildSteps ==
    /\ BuildFailed => buildEmbedCalls' = buildEmbedCalls
    /\ (BuildFailed /\ health' # health) =>
          /\ health'.indexReady = FALSE
          /\ health'.indexError = String(buildThrown)
          /\ health'.indexSize = 0

C3_BuildFailureRecorded == []C3_FailedBuildState /\ [][C3_FailedBuildSteps]_vars

C3_Witness ==
    /\ buildThrown = NoEmbeddingError
    /\ Len(vectors) = 2
    /\ health.ok /\ health.indexError = String(NoEmbeddingError)

UserContext(r) == IF Truthy(req[r].context) THEN req[r].context ELSE <<>>

Answers == {AnswerOf(text) : text \in GenTexts}

\* C4: for a /chat request with a non-blank prompt that arrives while the index
\* is Building or Failed, generation is called exactly once, with the user's
\* context alone (the empty string when there is none), and the response is the
\* generated answer; the only error response is the one of a failed generation
\* call, never one carrying the retrieval error.  When retrieval succeeds the
\* context passed on is the retrieved context, then the user's.
C4_RetrievalErrorSwallowed ==
    \A r \in Requests :
        /\ req[r].at \in {"Building", "Failed"} =>
              /\ req[r].pc \in {"generating", "responded"}
              /\ req[r].genCalls = 1
              /\ req[r].genContext = UserContext(r)
              /\ req[r].pc = "responded" =>
                    IF req[r].genError = Null
                    THEN req[r].status = 200 /\ req[r].body.answer \in Answers
                    ELSE req[r].status = 500 /\ req[r].body.detail = req[r].genError.message
        /\ (req[r].rcKind = "returned" /\ req[r].retrieval # <<>>) =>
              req[r].genContext =
                 (IF Truthy(req[r].context)
                  THEN req[r].retrieval \o <<"\n", "\n">> \o req[r].context
                  ELSE req[r].retrieval)

C4_Witness ==
    /\ req[1].at = "Failed"
    /\ embeddingIndexError = PdfReadError
    /\ csvLoad.status = "ok"
    /\ req[1].context = <<"u">>
    /\ req[1].genContext = <<"u">>
    /\ req[1].status = 200

\* C5: a /chat request whose query embedding failed (index Ready) or whose
\* generation call failed is answered with the 500 failure response carrying
\* the error's detail, never with an answer; an answer is sent only after a
\* retrieval that returned or that failed the readiness check.
C5_FailuresPropagate ==
    \A r \in Requests :
        req[r].pc = "responded" =>
            /\ (req[r].rcKind = "threw" /\ req[r].embedCalls = 1) =>
                  /\ req[r].status = 500
                  /\ req[r].body.detail = req[r].rcError.message
            /\ req[r].genError # Null =>
                  /\ req[r].status = 500
                  /\ req[r].body.detail = req[r].genError.message
            /\ req[r].status = 200 =>
                  \/ req[r].rcKind = "returned"
                  \/ req[r].rcKind = "threw" /\ req[r].embedCalls = 0

\* C6: whenever the readiness flag is true the shared index holds an entry.
C6_ReadyNonEmpty == embeddingIndexReady => Len(embeddingIndex) >= 1

\* C7: the index state starts as Building with an empty index, and once it is
\* Ready or Failed none of the index, the readiness flag and the last build
\* error changes again: the one build moves the state at most once, Failed
\* never becomes Ready and Ready never becomes not-ready.
C7_Start == IndexState = "Building" /\ embeddingIndex = <<>> /\ embeddingIndexError = Null

C7_Step ==
    /\ IndexState # "Building" => UNCHANGED indexVars
    /\ IndexState' # IndexState => buildPc # "done" /\ buildPc' = "done"

C7_OneWayLifecycle == C7_Start /\ [][C7_Step]_vars

C7_Witness ==
    /\ IndexState = "Failed"
    /\ pdfLoad.status = "failed"
    /\ csvLoad.status = "ok"
    /\ req[1].at = "Failed"
    /\ req[1].pc = "responded"
    /\ health.ok /\ health.indexReady = FALSE

\* the generation call of request r returns or fails
GenReturns(r) == (\E text \in GenTexts : GenOk(r, text)) \/ GenFail(r, GenSendError)

\* every generation call eventually returns or fails; nothing is assumed of the build
LiveSpec == Spec /\ \A r \in Requests : WF_vars(GenReturns(r))

C8_NotReadyAtOnce ==
    \A r \in Requests :
        req[r].at = "Building" =>
            /\ req[r].pc \in {"generating", "responded"}
            /\ req[r].rcKind = "threw"
            /\ req[r].embedCalls = 0

C8_ArrivalStep ==
    \A r \in Requests :
        (req[r].pc = "new" /\ req'[r].at = "Building") =>
            /\ req'[r].rcKind = "threw"
            /\ UNCHANGED <<indexVars, buildVars>>

\* C8: a /chat request that arrives while the index is Building has its
\* not-ready outcome in the step of its arrival, no build step in between, and
\* it is eventually responded to, whether or not the build ever completes.
\* A request keeps its arrival state and its response, so the last part is
\* that, again and again, all requests that arrived during the build are
\* responded to.
C8_NonBlocking ==
    /\ []C8_NotReadyAtOnce
    /\ [][C8_ArrivalStep]_vars
    /\ []<>(\A r \in Requests : req[r].at = "Building" => req[r].pc = "responded")

C8_Witness ==
    /\ req[1].at = "Building"
    /\ req[1].pc = "responded"
    /\ buildPc = "embedding"
    /\ embeddingIndex = <<>>

(* ----------------- ranking over drawn indexes and queries ------------- *)
\* embeddings a build or a query may be given; <<9, 1>> stands for [0.9, 0.1]
\* with every vector scaled by 10, which leaves each cosine as it is
RankVectors == { <<10, 0>>, <<0, 10>>, <<9, 1>>, <<0, 0>>, <<-10, 0>>, <<3>> }

\* the corpora of three builds, of one, two and three chunks
RankCorpora ==
    { Corpus(<<CsvLabel(1, 1) \o <<"h", "\n", "a">> >>, <<>>),
      Corpus(<<CsvLabel(1, 1) \o <<"h", "\n", "a">> >>, <<<<"p">>>>),
      Corpus(<<CsvLabel(1, 1) \o <<"h", "\n", "a">> >>, <<<<"p", " ", "q">>, <<"q">>>>) }

\* the state a successful build leaves, for every corpus and embedding drawn
RankInit ==
    /\ TOP_K \in 0..MaxK
    /\ \E items \in RankCorpora :
          /\ corpus = items
          /\ \E vs \in [1..Len(items) -> RankVectors] :
                embeddingIndex = [i \in 1..Len(items) |->
                                    [source |-> items[i].source, id |-> items[i].id,
                                     text |-> items[i].text, vector |-> vs[i]]]
          /\ buildEmbedCalls = Len(items)
    /\ vectors = embeddingIndex
    /\ embeddingIndexReady = TRUE
    /\ embeddingIndexError = Null
    /\ buildPc = "done"
    /\ csvLoad = [status |-> "ok", value |-> Undefined]
    /\ pdfLoad = [status |-> "ok", value |-> Undefined]
    /\ buildEmbedArg = Undefined
    /\ buildThrown = Null
    /\ req = [r \in Requests |-> NewRequest]
    /\ health = [ok |-> FALSE]
    /\ call = NoCall

\* one /chat request, whose query may be given any of the embeddings
RankNext ==
    \/ \E prompt \in Prompts, context \in Contexts : ChatArrive(1, prompt, context)
    \/ \E vector \in RankVectors : QueryEmbedOk(1, vector)
    \/ QueryEmbedFail(1, EmbedSendError)
    \/ \E text \in GenTexts : GenOk(1, text)
    \/ GenFail(1, GenSendError)

RankSpec == RankInit /\ [][RankNext]_vars

IndexVectors == [i \in 1..Len(embeddingIndex) |-> embeddingIndex[i].vector]

Ids(entries) == [i \in 1..Len(entries) |-> entries[i].id]

\* C9: the ranking of a retrieveContext call returns min(k, index size) entries
\* of the index, each once and with its own score, in non-increasing score
\* order, and no entry left out scores strictly higher than a returned one; on
\* vectors [1,0], [0,1], [0.9,0.1] with query [1,0] and k = 2 it returns the
\* first entry, then the third.
C9_Ranking ==
    \A r \in Requests :
        req[r].rcKind = "returned" =>
            LET sc == req[r].scored
                q == req[r].queryVec
                n == Len(embeddingIndex)
                ScoreOf(j) == cosineSimilarity(q, embeddingIndex[j].vector)
                Returned(j) == \E i \in 1..Len(sc) : sc[i].id = embeddingIndex[j].id
            IN /\ Len(sc) = Min(TOP_K, n)
               /\ \A i \in 1..Len(sc) :
                     \E j \in 1..n : /\ sc[i].id = embeddingIndex[j].id
                                     /\ sc[i].text = embeddingIndex[j].text
                                     /\ sc[i].source = embeddingIndex[j].source
                                     /\ sc[i].score = ScoreOf(j)
               /\ \A i, i2 \in 1..Len(sc) : i # i2 => sc[i].id # sc[i2].id
               /\ \A i \in 1..(Len(sc) - 1) : ~ScoreGreater(sc[i + 1].score, sc[i].score)
               /\ \A j \in 1..n :
                     ~Returned(j) =>
                        \A i \in 1..Len(sc) : ~ScoreGreater(ScoreOf(j), sc[i].score)
               /\ (IndexVectors = <<<<10, 0>>, <<0, 10>>, <<9, 1>>>>
                     /\ q = <<10, 0>> /\ TOP_K = 2) =>
                        Ids(sc) = <<embeddingIndex[1].id, embeddingIndex[3].id>>

C9_Witness ==
    /\ req[1].rcKind = "returned"
    /\ IndexVectors = <<<<10, 0>>, <<0, 10>>, <<9, 1>>>>
    /\ req[1].queryVec = <<10, 0>>
    /\ TOP_K = 2
    /\ Ids(req[1].scored) = <<<<"c", "s", "v", "-", "0">>, <<"p", "d", "f", "-", "1">>>>

\* the section of rank i for a ranked chunk
ExpectedSection(i, chunk) ==
    <<"C", "h", "u", "n", "k", " ">> \o NumToString(i) \o <<" ", "[">>
        \o (IF chunk.source = "csv" THEN <<"c", "s", "v">> ELSE <<"p", "d", "f">>)
        \o <<"]", ":", "\n">> \o chunk.text

\* text is the sections of ranks i .. Len(sc), each but the last followed by a blank line
RECURSIVE IsSections(_, _, _)
IsSections(text, sc, i) ==
    IF i > Len(sc) THEN text = <<>>
    ELSE LET sec == ExpectedSection(i, sc[i])
         IN /\ Len(text) >= Len(sec)
            /\ SubSeq(text, 1, Len(sec)) = sec
            /\ IF i = Len(sc) THEN Len(text) = Len(sec)
               ELSE /\ Len(text) >= Len(sec) + 2
                    /\ SubSeq(text, Len(sec) + 1, Len(sec) + 2) = <<"\n", "\n">>
                    /\ IsSections(SubSeq(text, Len(sec) + 3, Len(text)), sc, i + 1)

\* C10: a retrieveContext call that returns returns a string, which is empty
\* only when k selects no entry; for k >= 1 it is non-empty and is one section
\* per returned chunk, in the order of the ranking (non-increasing score), the
\* i-th labelled with rank i and the chunk's source kind.
C10_ContextString ==
    \A r \in Requests :
        req[r].rcKind = "returned" =>
            LET sc == req[r].scored
                text == req[r].retrieval
            IN /\ text # Undefined
               /\ text = <<>> => (Len(sc) = 0 /\ TOP_K = 0)
               /\ TOP_K >= 1 => (text # <<>> /\ Len(sc) >= 1)
               /\ IsSections(text, sc, 1)
               /\ \A i \in 1..(Len(sc) - 1) : ~ScoreGreater(sc[i + 1].score, sc[i].score)

C10_Witness ==
    /\ req[1].rcKind = "returned"
    /\ Len(req[1].scored) = 2
    /\ req[1].scored[1].source = "pdf"
    /\ req[1].scored[2].source = "csv"
    /\ Len(embeddingIndex) >= 3

(* --------------------- direct calls of the pure functions ------------- *)
\* the server just started, but for the configuration and the direct call
StartState ==
    /\ embeddingIndex = <<>>
    /\ embeddingIndexReady = FALSE
    /\ embeddingIndexError = Null
    /\ buildPc = "fetching"
    /\ csvLoad = Pending
    /\ pdfLoad = Pending
    /\ corpus = <<>>
    /\ vectors = <<>>
    /\ buildEmbedArg = Undefined
    /\ buildEmbedCalls = 0
    /\ buildThrown = Null
    /\ req = [r \in Requests |-> NewRequest]
    /\ health = [ok |-> FALSE]

serverVars == <<embeddingIndex, embeddingIndexReady, embeddingIndexError, TOP_K, buildPc,
                csvLoad, pdfLoad, corpus, vectors, buildEmbedArg, buildEmbedCalls,
                buildThrown, req, health>>

\* the data rows a tabular text may hold
CsvRows == { <<"a">>, <<"b", "c">> }

\* a tabular text: a header line, n data rows, each line ended by the line
\* terminator, the last one only when the text is terminated; and the empty text
CsvCallArgs ==
    { [header |-> <<"h">>, rows |-> rows, eol |-> eol, terminated |-> t, chunkSize |-> size] :
         rows \in UNION { [1..n -> CsvRows] : n \in 0..MaxRows },
         eol \in { <<"\n">>, <<"\r", "\n">> }, t \in BOOLEAN, size \in 1..MaxChunkSize }
    \cup { [header |-> <<>>, rows |-> <<>>, eol |-> <<"\n">>, terminated |-> FALSE,
            chunkSize |-> size] : size \in 1..MaxChunkSize }
    \cup { [header |-> <<"h">>, rows |-> [i \in 1..25 |-> <<"a">>], eol |-> <<"\n">>,
            terminated |-> FALSE, chunkSize |-> 12] }

CsvTextOf(args) ==
    Join(<<args.header>> \o args.rows, args.eol)
        \o (IF args.terminated THEN args.eol ELSE <<>>)

ChunkCsvInit ==
    /\ StartState
    /\ TOP_K = 0
    /\ \E args \in CsvCallArgs :
          call = [fn |-> "chunkCsv", args |-> args, returned |-> FALSE, value |-> <<>>]

\* server.js:99-109 called on a text and a chunk size
ChunkCsvCall ==
    /\ call.fn = "chunkCsv"
    /\ ~call.returned
    /\ call' = [call EXCEPT !.returned = TRUE,
                            !.value = chunkCsv(CsvTextOf(call.args), call.args.chunkSize)]
    /\ UNCHANGED serverVars

ChunkCsvSpec == ChunkCsvInit /\ [][ChunkCsvCall]_vars

CeilDiv(n, d) == (n + d - 1) \div d

\* the chunk of 0-based number j for header, rows and chunk size s
ExpectedCsvChunk(header, rows, s, j) ==
    LET from == j * s + 1
        to == Min((j + 1) * s, Len(rows))
    IN <<"C", "S", "V", " ", "c", "h", "u", "n", "k", " ", "(", "r", "o", "w", "s", " ">>
          \o NumToString(from) \o <<"-">> \o NumToString(to) \o <<")", ":", "\n">>
          \o header \o <<"\n">> \o Join(SubSeq(rows, from, to), <<"\n">>)

\* C11: for a tabular text of a header line and n data rows and chunk size s,
\* chunkCsv returns ceil(n / s) chunks; chunk j is the label
\* 'rows j*s+1-min((j+1)*s, n)', the header and the data rows of that range,
\* in order and no others; with no data rows it returns no chunk.
C11_CsvChunks ==
    (call.fn = "chunkCsv" /\ call.returned) =>
        LET rows == call.args.rows
            n == Len(rows)
            s == call.args.chunkSize
            out == call.value
        IN /\ Len(out) = CeilDiv(n, s)
           /\ \A j \in 0..(Len(out) - 1) :
                 out[j + 1] = ExpectedCsvChunk(call.args.header, rows, s, j)
           /\ n = 0 => out = <<>>

\* the same for a text whose last line has no line terminator after it
C11_UnterminatedOnly ==
    (call.fn = "chunkCsv" /\ ~call.args.terminated) => C11_CsvChunks

(* ------------------------------ chunkText called ---------------------- *)
TextChars == {"a", " ", "\n"}

\* a blank-line boundary starts inside u: a newline, then whitespace holding a newline
HasBoundary(u) ==
    \E i \in 1..Len(u) : \E j \in (i + 1)..Len(u) :
        /\ u[i] = "\n" /\ u[j] = "\n"
        /\ \A k \in (i + 1)..j : u[k] \in Whitespace

\* paragraph units of at most n characters: no whitespace at either end and no
\* blank-line boundary inside
UnitsUpTo(n) ==
    { u \in UNION { [1..len -> TextChars] : len \in 1..n } :
         /\ u[1] \notin Whitespace
         /\ u[Len(u)] \notin Whitespace
         /\ ~HasBoundary(u) }

\* blank-line boundaries between units
Boundaries == { <<"\n", "\n">>, <<"\n", " ", "\n">>, <<"\r", "\n", "\r", "\n", "\n">> }

\* what may stand before the first and after the last unit
Margins == { <<>>, <<" ">>, <<"\n", "\n">> }

\* a free text: up to two units with a boundary between them and margins around
TextCallArgs ==
    { [units |-> units, sep |-> sep, lead |-> lead, trail |-> trail, maxLen |-> m] :
         units \in {<<>>} \cup { <<u>> : u \in UnitsUpTo(MaxTextLen) }
                          \cup { <<u, v>> : u, v \in UnitsUpTo(MaxTextLen - 2) },
         sep \in Boundaries, lead \in Margins, trail \in Margins, m \in 1..MaxMaxLen }
    \cup { [units |-> << [i \in 1..25 |-> "a"] >>, sep |-> <<"\n", "\n">>, lead |-> <<>>,
            trail |-> <<>>, maxLen |-> 9] }

TextOf(args) == args.lead \o Join(args.units, args.sep) \o args.trail

ChunkTextInit ==
    /\ StartState
    /\ TOP_K = 0
    /\ \E args \in TextCallArgs :
          call = [fn |-> "chunkText", args |-> args, returned |-> FALSE, value |-> <<>>]

\* server.js:111-124 called on a text and a maximum length
ChunkTextCall ==
    /\ call.fn = "chunkText"
    /\ ~call.returned
    /\ call' = [call EXCEPT !.returned = TRUE,
                            !.value = chunkText(TextOf(call.args), call.args.maxLen)]
    /\ UNCHANGED serverVars

ChunkTextSpec == ChunkTextInit /\ [][ChunkTextCall]_vars

\* the consecutive windows of at most m characters of a unit
ExpectedPieces(unit, m) ==
    [j \in 1..CeilDiv(Len(unit), m) |-> SubSeq(unit, (j - 1) * m + 1, Min(j * m, Len(unit)))]

RECURSIVE Flatten(_)
Flatten(seqs) == IF seqs = <<>> THEN <<>> ELSE Head(seqs) \o Flatten(Tail(seqs))

\* C12: chunkText returns only non-empty chunks of at most M characters; a unit
\* of at most M characters is one chunk equal to it, a unit of L > M characters
\* is ceil(L / M) consecutive windows that concatenate to the unit (25 and 9
\* give lengths 9, 9, 7); the empty text gives no chunk.
C12_TextChunks ==
    (call.fn = "chunkText" /\ call.returned) =>
        LET units == call.args.units
            m == call.args.maxLen
            out == call.value
            pieces == [i \in 1..Len(units) |-> ExpectedPieces(units[i], m)]
        IN /\ \A c \in 1..Len(out) : Len(out[c]) >= 1 /\ Len(out[c]) <= m
           /\ out = Flatten(pieces)
           /\ \A i \in 1..Len(units) :
                 /\ Len(units[i]) <= m => pieces[i] = <<units[i]>>
                 /\ Len(units[i]) > m =>
                       /\ Len(pieces[i]) = CeilDiv(Len(units[i]), m)
                       /\ Flatten(pieces[i]) = units[i]
           /\ (Len(units) = 1 /\ Len(units[1]) = 25 /\ m = 9) =>
                 <<Len(out), Len(out[1]), Len(out[2]), Len(out[3])>> = <<3, 9, 9, 7>>
           /\ TextOf(call.args) = <<>> => out = <<>>

\* two units, the first one oversized with a shorter last window, were chunked
C12_Witness ==
    /\ call.fn = "chunkText" /\ call.returned
    /\ Len(call.args.units) = 2
    /\ Len(call.args.units[1]) = 3 /\ call.args.maxLen = 2
    /\ Len(call.value) = 3 /\ Len(call.value[2]) = 1

(* --------------------------- cosineSimilarity called ------------------ *)
Components == {-1, 0, 2}

CosineVectors == UNION { [1..n -> Components] : n \in 0..MaxDim }

CosineInit ==
    /\ StartState
    /\ TOP_K = 0
    /\ \E a \in CosineVectors, b \in CosineVectors :
          call = [fn |-> "cosineSimilarity", args |-> [a |-> a, b |-> b],
                  returned |-> FALSE, value |-> <<0, 1>>, mirrored |-> <<0, 1>>]

\* server.js:85-97 called on a pair of vectors, and on the pair the other way round
CosineCall ==
    /\ call.fn = "cosineSimilarity"
    /\ ~call.returned
    /\ call' = [call EXCEPT !.returned = TRUE,
                            !.value = cosineSimilarity(call.args.a, call.args.b),
                            !.mirrored = cosineSimilarity(call.args.b, call.args.a)]
    /\ UNCHANGED serverVars

CosineSpec == CosineInit /\ [][CosineCall]_vars

\* v is zero in each of its first len components
ZeroOver(v, len) == \A i \in 1..len : v[i] = 0

\* C13: cosineSimilarity is exactly 0 when either vector has zero norm over the
\* shared-length prefix (an empty vector included), its divisor is never zero,
\* and for vectors of equal nonzero length it gives the same value both ways.
C13_CosineDegenerate ==
    (call.fn = "cosineSimilarity" /\ call.returned) =>
        LET a == call.args.a
            b == call.args.b
            len == Min(Len(a), Len(b))
        IN /\ (ZeroOver(a, len) \/ ZeroOver(b, len)) => call.value = <<0, 1>>
           /\ call.value[2] # 0
           /\ call.mirrored[2] # 0
           /\ (Len(a) = Len(b) /\ Len(a) > 0) => call.value = call.mirrored

\* a vector that is zero only over the shared prefix met a nonzero one
C13_Witness ==
    /\ call.fn = "cosineSimilarity" /\ call.returned
    /\ call.args.a = <<0, 2>> /\ call.args.b = <<2>>
    /\ call.value = <<0, 1>>

(* ------------------------------ tie-breaking -------------------------- *)
\* C14: index entries with equal scores for a query are returned in their
\* index order, which is csv chunks before pdf chunks and ascending ordinals
\* within each; when a tie straddles the cut at k, the entries earlier in the
\* index are the ones returned.
C14_TiesInIndexOrder ==
    \A r \in Requests :
        req[r].rcKind = "returned" =>
            LET sc == req[r].scored
                q == req[r].queryVec
                n == Len(embeddingIndex)
                ScoreOf(j) == cosineSimilarity(q, embeddingIndex[j].vector)
                Tied(s, t) == ~ScoreGreater(s, t) /\ ~ScoreGreater(t, s)
                Pos(i) == CHOOSE j \in 1..n : embeddingIndex[j].id = sc[i].id
                Returned(j) == \E i \in 1..Len(sc) : sc[i].id = embeddingIndex[j].id
                Ordinal(j) == Cardinality({j2 \in 1..(j - 1) :
                                  embeddingIndex[j2].source = embeddingIndex[j].source})
            IN /\ \A j \in 1..n :
                     /\ embeddingIndex[j].id = SourceChars(embeddingIndex[j].source)
                                                  \o <<"-">> \o NumToString(Ordinal(j))
                     /\ \A j2 \in (j + 1)..n :
                           embeddingIndex[j].source = "pdf" => embeddingIndex[j2].source = "pdf"
               /\ \A i \in 1..Len(sc) : \A i2 \in (i + 1)..Len(sc) :
                     Tied(sc[i].score, sc[i2].score) => Pos(i) < Pos(i2)
               /\ \A j \in 1..n :
                     ~Returned(j) =>
                        \A i \in 1..Len(sc) : Tied(ScoreOf(j), sc[i].score) => Pos(i) < j

\* the first two of three entries tie below the third, and the cut at 2 keeps
\* the first of them
C14_Witness ==
    /\ req[1].rcKind = "returned"
    /\ IndexVectors = <<<<0, 10>>, <<0, 0>>, <<10, 0>>>>
    /\ req[1].queryVec = <<10, 0>>
    /\ TOP_K = 2
    /\ Ids(req[1].scored) = <<<<"p", "d", "f", "-", "1">>, <<"c", "s", "v", "-", "0">>>>

(* ------------------------------ single writer ------------------------- *)
\* C15: only the build writes the index state: a step of a /chat request (its
\* retrieveContext call included, whether it returns or throws) or of a status
\* request leaves the index entries, their order, the readiness flag and the
\* build error as they were; the ranking does not reorder the shared index.
C15_Step ==
    /\ (req' # req \/ health' # health) => UNCHANGED indexVars
    /\ indexVars' # indexVars =>
          /\ buildPc \in {"fetching", "embedding"} /\ buildPc' = "done"
          /\ req' = req /\ health' = health

C15_OnlyBuildWrites == [][C15_Step]_vars

\* a ranking returned the second index entry first, and the index is as built
C15_Witness ==
    /\ req[1].rcKind = "returned"
    /\ Len(req[1].scored) = 2
    /\ Len(embeddingIndex) = 2
    /\ req[1].scored[1].id = embeddingIndex[2].id
    /\ embeddingIndex = vectors
    /\ embeddingIndex[1].source = "csv"

(* --------------------------- build call order ------------------------- *)
\* the build's embedding call is outstanding
BuildCallOutstanding == buildPc = "embedding"

C16_State ==
    /\ buildEmbedCalls > 0 => csvLoad.status = "ok" /\ pdfLoad.status = "ok"
    /\ buildEmbedCalls <= Len(vectors) + 1
    /\ BuildCallOutstanding =>
          /\ buildEmbedCalls = Len(vectors) + 1
          /\ Len(vectors) < Len(corpus)
          /\ LET text == corpus[Len(vectors) + 1].text
             IN /\ Len(buildEmbedArg) <= EmbedInputMax
                /\ buildEmbedArg = SubSeq(text, 1, Min(Len(text), EmbedInputMax))
    /\ \A i \in 1..Len(vectors) :
          vectors[i].id = corpus[i].id /\ vectors[i].text = corpus[i].text
    /\ \A i \in 1..Len(corpus) : \A j \in (i + 1)..Len(corpus) :
          corpus[i].source = "pdf" => corpus[j].source = "pdf"
    /\ embeddingIndexReady => buildEmbedCalls = Len(corpus) /\ Len(vectors) = Len(corpus)

C16_Step ==
    buildEmbedCalls' # buildEmbedCalls =>
        /\ buildEmbedCalls' = buildEmbedCalls + 1
        /\ IF BuildCallOutstanding
           THEN Len(vectors') = Len(vectors) + 1
           ELSE buildPc = "fetching" /\ buildEmbedCalls = 0

\* C16: the build issues no embedding call until both documents were fetched;
\* it then issues the calls one at a time in corpus order (csv chunks, then pdf
\* chunks), each after the previous one returned, never two outstanding; a
\* successful build has issued one call per chunk, each on at most
\* EmbedInputMax characters of the chunk's text.
C16_SequentialBuildCalls == []C16_State /\ [][C16_Step]_vars

\* the call for a chunk longer than the limit is outstanding, in a corpus of
\* csv and pdf chunks
C16_Witness ==
    /\ BuildCallOutstanding
    /\ Len(corpus) >= 3
    /\ corpus[1].source = "csv" /\ corpus[Len(corpus)].source = "pdf"
    /\ Len(corpus[Len(vectors) + 1].text) > EmbedInputMax
    /\ Len(buildEmbedArg) = EmbedInputMax

(* --------------------------- query embedding -------------------------- *)
\* the readiness check of retrieveContext passes in the current state
ReadinessCheckPasses == embeddingIndexReady /\ embeddingIndex # <<>>

C17_State ==
    \A r \in Requests :
        /\ req[r].embedCalls <= 1
        /\ req[r].embedCalls = 1 =>
              /\ Len(req[r].queryArg) <= QueryInputMax
              /\ req[r].queryArg =
                    SubSeq(req[r].prompt, 1, Min(Len(req[r].prompt), QueryInputMax))
        /\ req[r].rcKind = "pending" =>
              req[r].embedCalls = 1 /\ req[r].scored = <<>> /\ req[r].retrieval = <<>>
        /\ req[r].rcKind = "returned" => req[r].embedCalls = 1

C17_Step ==
    \A r \in Requests :
        /\ (req[r].rcKind = "none" /\ req'[r].rcKind # "none") =>
              IF ReadinessCheckPasses
              THEN req'[r].rcKind = "pending" /\ req'[r].embedCalls = 1
              ELSE req'[r].rcKind = "threw" /\ req'[r].embedCalls = 0
        /\ req[r].rcKind # "none" => req'[r].embedCalls = req[r].embedCalls
        /\ req'[r].scored # req[r].scored =>
              req[r].rcKind = "pending" /\ req'[r].rcKind = "returned"

\* C17: a retrieveContext call that passes the readiness check calls the
\* embedding capability exactly once, on the first QueryInputMax characters of
\* the query, and ranks only when that call has returned; a call that fails the
\* readiness check calls it zero times.
C17_OneQueryEmbedding == []C17_State /\ [][C17_Step]_vars

\* a query longer than the limit was embedded once, truncated, and then ranked
C17_Witness ==
    /\ req[1].rcKind = "returned"
    /\ req[1].embedCalls = 1
    /\ Len(req[1].prompt) > QueryInputMax
    /\ Len(req[1].queryArg) = QueryInputMax
    /\ req[1].scored # <<>>

(* ------------------------- a build after a failed one ----------------- *)
\* buildEmbeddingIndex called again after a build that failed: the catch block
\* of the earlier call left its error and the flag false (server.js:145-146),
\* and the new call has run to its first await. The server itself calls the
\* function once (server.js:277); this is the function called on that state.
RebuildInit ==
    /\ embeddingIndex = <<>>
    /\ embeddingIndexReady = FALSE
    /\ embeddingIndexError \in {CsvReadError, EmbedSendError}
    /\ TOP_K \in 0..MaxK
    /\ buildPc = "fetching"
    /\ csvLoad = Pending
    /\ pdfLoad = Pending
    /\ corpus = <<>>
    /\ vectors = <<>>
    /\ buildEmbedArg = Undefined
    /\ buildEmbedCalls = 0
    /\ buildThrown = Null
    /\ req = [r \in Requests |-> NewRequest]
    /\ health = [ok |-> FALSE]
    /\ call = NoCall

RebuildSpec == RebuildInit /\ [][Next]_vars

C18_Step ==
    /\ (~embeddingIndexReady /\ embeddingIndexReady') =>
          /\ embeddingIndex' = vectors'
          /\ embeddingIndexError' = Null
    /\ embeddingIndex' # embeddingIndex =>
          embeddingIndexReady' /\ embeddingIndexError' = Null
    /\ (embeddingIndexError # Null /\ embeddingIndexError' = Null) =>
          embeddingIndexReady' /\ embeddingIndex' = vectors'

\* C18: a successful build writes the index, the readiness flag and the null
\* error in one step, so in every state readiness true implies that the build
\* error is null, also when the build follows one that failed.
C18_ReadyImpliesNoError ==
    /\ [](embeddingIndexReady => embeddingIndexError = Null)
    /\ [][C18_Step]_vars

\* the status endpoint reported the earlier failure, and the build that followed
\* has published its index
C18_Witness ==
    /\ health.ok
    /\ ~health.indexReady
    /\ health.indexError # Undefined
    /\ embeddingIndexReady
    /\ embeddingIndexError = Null
    /\ embeddingIndex # <<>>

(* ----------------------- the index while not ready -------------------- *)
C19_State ==
    /\ ~embeddingIndexReady => embeddingIndex = <<>>
    /\ (health.ok /\ ~health.indexReady) => health.indexSize = 0
    /\ \A r \in Requests :
          /\ req[r].rcKind = "pending" =>
                embeddingIndexReady /\ CompleteIndex(embeddingIndex)
          /\ req[r].rcKind = "returned" =>
                /\ embeddingIndexReady
                /\ CompleteIndex(embeddingIndex)
                /\ req[r].retrieval =
                      ContextText(Scored(embeddingIndex, req[r].queryVec, TOP_K))

C19_Step ==
    (\E r \in Requests : req[r].rcKind = "pending") => UNCHANGED indexVars

\* C19: with the one build of the process, the shared index is empty in every
\* state in which the readiness flag is false, so a status response that
\* reports not-ready reports 0 entries; and every context string that
\* retrieveContext returns is computed from the complete index of the
\* successful build: the index does not change between the readiness check and
\* the read of the index after the query's embedding call.
C19_EmptyUntilReady == []C19_State /\ [][C19_Step]_vars

\* a status response during the build reported not-ready with 0 entries while
\* the build had embedded an entry, and a later call returned a context string
C19_Witness ==
    /\ health.ok
    /\ ~health.indexReady
    /\ health.indexSize = 0
    /\ Len(corpus) >= 2
    /\ req[1].rcKind = "returned"
    /\ req[1].retrieval # <<>>

(* ------------------------- one response per request ------------------- *)
\* the embedding call of request r's query is rejected
QueryEmbedRejects(r) == QueryEmbedFail(r, EmbedSendError)

\* every call a request makes eventually settles; nothing is assumed of the
\* build. The query's embedding call settles by QueryEmbedOk or by
\* QueryEmbedFail: both are enabled exactly while the call is outstanding and
\* each of them ends it, so weak fairness of either step is weak fairness of the
\* settling; it is stated for the rejection.
ChatLiveSpec ==
    Spec /\ \A r \in Requests : WF_vars(GenReturns(r)) /\ WF_vars(QueryEmbedRejects(r))

\* the prompt is missing, empty or only whitespace
BlankPrompt(prompt) ==
    IF prompt = Undefined THEN TRUE ELSE \A i \in 1..Len(prompt) : prompt[i] \in Whitespace

Arrived(r) == req[r].pc # "new"

C20_State ==
    \A r \in Requests :
        Arrived(r) =>
            IF BlankPrompt(req[r].prompt)
            THEN /\ req[r].pc = "responded"
                 /\ req[r].status = 400
                 /\ req[r].body = [error |-> "Prompt is required"]
                 /\ req[r].embedCalls = 0
                 /\ req[r].genCalls = 0
                 /\ req[r].rcKind = "none"
            ELSE /\ req[r].status \in {0, 200, 500}
                 /\ req[r].pc = "responded" <=> req[r].status # 0
                 /\ req[r].status = 200 => DOMAIN req[r].body = {"answer"}
                 /\ req[r].status = 500 =>
                       /\ DOMAIN req[r].body = {"error", "detail"}
                       /\ req[r].body.error = "Bedrock call failed"

C20_Step ==
    \A r \in Requests :
        /\ req[r].pc = "responded" => req'[r] = req[r]
        /\ (~Arrived(r) /\ req'[r].pc # "new" /\ BlankPrompt(req'[r].prompt)) =>
              UNCHANGED <<indexVars, buildVars>>

\* C20: a /chat request whose prompt is missing, empty or only whitespace is
\* answered 400 'Prompt is required' in the step of its arrival, with no
\* embedding call, no generation call and the index state unchanged; a request
\* with any other prompt is sent one response and no second one, an answer or
\* a 500 error. A response is final (C20_Step), so that every arrived request
\* is eventually responded to is that, again and again, all arrived ones are.
C20_OneResponse ==
    /\ []C20_State
    /\ [][C20_Step]_vars
    /\ []<>(\A r \in Requests : Arrived(r) => req[r].pc = "responded")

\* a request with a whitespace prompt was rejected after the index was built
C20_Witness ==
    /\ req[1].prompt = <<" ">>
    /\ req[1].status = 400
    /\ embeddingIndexReady
    /\ embeddingIndex # <<>>
====
